---- MODULE Spec2Model ----
(***************************************************************************)
(* Report pipeline of django-DefectDojo (dojo_report, dojo/tasks.py):      *)
(*   - convert_to_native_type, the generic object -> native type converter *)
(*   - the ReportRenderer family (JSON, PDF)                               *)
(*   - the ReportCreator family (populate / render)                        *)
(*   - the background PDF jobs async_pdf_report / async_custom_pdf_report  *)
(*                                                                         *)
(* Three specifications share the module:                                  *)
(*   Spec        the PDF renderer and the PDF jobs                         *)
(*   SpecReport  the creators and the JSON renderer                        *)
(*   SpecConv    convert_to_native_type as a pure function                 *)
(***************************************************************************)
EXTENDS Integers, Sequences, FiniteSets, TLC

VARIABLES
    \* ---- convert_to_native_type (SpecConv)
    cv_obj,          \* the value handed to convert_to_native_type
    cv_ignore,       \* the ignore_errors argument
    cv_result,       \* NotCalled, or the outcome of the call
    \* ---- renderers
    default_initial_context, \* the dict object that is the default of
                             \* ReportRenderer.__init__'s initial_context
    renderer,        \* the renderer instance in use (NoRenderer: none yet)
    history,         \* the render calls made on JSON renderers used
                     \* directly: arguments and what each returned
    \* ---- Report records, task queue and PDF jobs (Spec)
    reports,         \* the persisted Report rows, by id
    queue,           \* the job messages enqueued so far
    deliveries,      \* per job message: how often it was delivered
    runs,            \* per job message: the state of its current execution
    notifications,   \* per job message: the notifications its executions
                     \* emitted, in order
    handles,         \* the job handles returned to the callers of render
    \* ---- domain records and report creators (SpecReport)
    db,              \* the domain records: relations between them
    creator,         \* the report creator in use (NoCreator: none yet)
    output           \* what the last render call returned or raised

convVars == <<cv_obj, cv_ignore, cv_result>>
rendererVars == <<default_initial_context, renderer, history>>
pdfVars == <<reports, queue, deliveries, runs, notifications, handles>>
creatorVars == <<db, creator, output>>

(***************************************************************************)
(* Bounds                                                                  *)
(***************************************************************************)
\* containers wrapped around a leaf in the values given to the converter
MaxDepth == 2
\* Report records created in one behaviour
MaxReports == 2
\* deliveries of job messages by the task queue in one behaviour (a message
\* is delivered at least once, so one message may take several of them)
MaxDeliveries == 2
\* populate calls on one creator
MaxPopulates == 1
\* render calls on one creator
MaxCreatorRenders == 1
\* render calls on JSON renderers used directly
MaxRenders == 3

(***************************************************************************)
(* Python values.  Every value is a record tagged by k.                    *)
(***************************************************************************)
NoneV == [k |-> "none"]
Str(s) == [k |-> "str", s |-> s]
Num(n) == [k |-> "num", n |-> n]
BoolV(b) == [k |-> "bool", b |-> b]
\* a mapping: a function from (tagged) keys to values
DictV(d) == [k |-> "dict", d |-> d]
\* any other iterable (list, tuple, QuerySet): its elements in order
ListV(items) == [k |-> "list", items |-> items]
DateTimeV(y, mo, dd, h, mi, s) ==
    [k |-> "datetime", date |-> <<y, mo, dd>>, time |-> <<h, mi, s>>]
DateV(y, mo, dd) == [k |-> "date", date |-> <<y, mo, dd>>]
TimeV(h, mi, s) == [k |-> "time", time |-> <<h, mi, s>>]
\* a models.Model instance: cls its class, f its local fields (name -> value);
\* user tells an AbstractUser
ModelV(cls, user, f) == [k |-> "model", cls |-> cls, user |-> user, f |-> f]
\* an object of no handled type (not iterable, not a model)
ObjV == [k |-> "object"]

EmptyMap == [x \in {} |-> x]

\* the one-entry mapping key -> val
Single(key, val) == [x \in {key} |-> val]

\* a Python dict with string keys, as a mapping of tagged keys
StrDict(m) == DictV([key \in {Str(s) : s \in DOMAIN m} |-> m[key.s]])

(***************************************************************************)
(* strftime                                                                *)
(***************************************************************************)
Pad2(n) == IF n < 10 THEN "0" \o ToString(n) ELSE ToString(n)

Pad4(n) ==
    IF n < 10 THEN "000" \o ToString(n)
    ELSE IF n < 100 THEN "00" \o ToString(n)
    ELSE IF n < 1000 THEN "0" \o ToString(n)
    ELSE ToString(n)

\* strftime('%Y-%m-%d')
FormatDate(d) == Pad4(d[1]) \o "-" \o Pad2(d[2]) \o "-" \o Pad2(d[3])

\* strftime('%H:%M:%S')
FormatTime(t) == Pad2(t[1]) \o ":" \o Pad2(t[2]) \o ":" \o Pad2(t[3])

\* strftime('%Y-%m-%dT%H:%M:%S')
FormatDateTime(d, t) == FormatDate(d) \o "T" \o FormatTime(t)

(***************************************************************************)
(* convert_to_native_type.  An outcome is [ok |-> TRUE, v |-> value] or    *)
(* [ok |-> FALSE] when ValueError is raised.                               *)
(***************************************************************************)
Ok(v) == [ok |-> TRUE, v |-> v]
Raised == [ok |-> FALSE]
\* no call made yet
NotCalled == [called |-> FALSE]

\* the ignore_errors argument of the recursive calls: none is passed, so the
\* parameter's default applies
NestedIgnoreErrors(ignore_errors) == FALSE

\* iter(x) succeeds: strings and dicts are iterable as lists, tuples, sets
\* and record-sets are
is_iterable(x) == x.k \in {"str", "dict", "list"}

\* the parts "for part in obj" yields: the elements of a list, the keys of a
\* dict, the characters of a string
Iterated(obj) ==
    IF obj.k = "list" THEN obj.items
    ELSE IF obj.k = "dict" THEN
        CHOOSE q \in [1..Cardinality(DOMAIN obj.d) -> DOMAIN obj.d] :
            \A key \in DOMAIN obj.d : \E i \in DOMAIN q : q[i] = key
    ELSE [i \in 1..Len(obj.s) |-> Str(SubSeq(obj.s, i, i))]

\* the classes of Python a value is an instance of: bool is a Number, a
\* datetime is a date as well
InstanceOf(obj, cls) ==
    CASE cls = "string_types" -> obj.k = "str"
      [] cls = "Number" -> obj.k \in {"num", "bool"}
      [] cls = "dict" -> obj.k = "dict"
      [] cls = "datetime" -> obj.k = "datetime"
      [] cls = "date" -> obj.k \in {"datetime", "date"}
      [] cls = "time" -> obj.k = "time"
      [] cls = "AbstractUser" -> obj.k = "model" /\ obj.user
      [] cls = "Model" -> obj.k = "model"

\* an isinstance that does not recognise date-time values as such
isinstance_datetime_missed(obj, cls) ==
    cls # "datetime" /\ InstanceOf(obj, cls)

isinstance(obj, cls) == InstanceOf(obj, cls)

\* a field selection that ignores exclude_fields
IncludedFieldsAll(obj, exclude_fields, include_fields) == DOMAIN obj.f

\* the fields convert_model_typed_object converts
IncludedFields(obj, exclude_fields, include_fields) ==
    IF include_fields = {}
    THEN (DOMAIN obj.f) \ exclude_fields
    ELSE include_fields

RECURSIVE convert_to_native_type(_, _)
convert_model_typed_object(obj, exclude_fields, include_fields) ==
    LET names == IncludedFields(obj, exclude_fields, include_fields)
        conv == [n \in names |->
                    convert_to_native_type(obj.f[n], NestedIgnoreErrors(FALSE))]
    IN  IF \E n \in names : ~conv[n].ok
        THEN Raised
        ELSE Ok(DictV([key \in {Str(n) : n \in names} |-> conv[key.s].v]))

convert_to_native_type(obj, ignore_errors) ==
    IF obj.k = "none" THEN Ok(NoneV)
    ELSE IF isinstance(obj, "string_types") \/ isinstance(obj, "Number")
        THEN Ok(obj)
    ELSE IF isinstance(obj, "dict") THEN
        LET ck == [key \in DOMAIN obj.d |->
                     convert_to_native_type(key, NestedIgnoreErrors(ignore_errors))]
            cval == [key \in DOMAIN obj.d |->
                     convert_to_native_type(obj.d[key],
                                            NestedIgnoreErrors(ignore_errors))]
        IN  IF \E key \in DOMAIN obj.d : ~ck[key].ok \/ ~cval[key].ok
            THEN Raised
            ELSE Ok(DictV([nk \in {ck[key].v : key \in DOMAIN obj.d} |->
                    cval[CHOOSE key \in DOMAIN obj.d : ck[key].v = nk].v]))
    ELSE IF is_iterable(obj) THEN
        LET parts == [i \in DOMAIN Iterated(obj) |->
                        convert_to_native_type(Iterated(obj)[i],
                                               NestedIgnoreErrors(ignore_errors))]
        IN  IF \E i \in DOMAIN parts : ~parts[i].ok
            THEN Raised
            ELSE Ok(ListV([i \in DOMAIN parts |-> parts[i].v]))
    ELSE IF isinstance(obj, "datetime")
        THEN Ok(Str(FormatDateTime(obj.date, obj.time)))
    ELSE IF isinstance(obj, "date") THEN Ok(Str(FormatDate(obj.date)))
    ELSE IF isinstance(obj, "time") THEN Ok(Str(FormatTime(obj.time)))
    ELSE IF isinstance(obj, "AbstractUser")
        THEN convert_model_typed_object(obj, {"password"}, {})
    ELSE IF isinstance(obj, "Model") THEN convert_model_typed_object(obj, {}, {})
    ELSE IF ~ignore_errors THEN Raised
    ELSE Ok(NoneV)

(***************************************************************************)
(* SpecConv: convert_to_native_type applied to bounded inputs              *)
(***************************************************************************)
SampleDateTime == DateTimeV(2018, 3, 7, 9, 5, 0)
SampleDate == DateV(2018, 3, 7)
SampleTime == TimeV(9, 5, 0)

Leaves == {NoneV, Str("a"), Num(1), BoolV(TRUE), SampleDateTime, SampleDate,
           SampleTime, ObjV}

\* x held by one container
Wrap(x) ==
    { ListV(<<Num(1), x>>),
      DictV(Single(Str("key"), x)),
      DictV(Single(IF x \in Leaves THEN x ELSE Str("other"), Num(2))),
      ModelV("Finding", FALSE, [n \in {"id", "field"} |->
                                   IF n = "id" THEN Num(1) ELSE x]),
      ModelV("Dojo_User", TRUE, [n \in {"username", "password", "field"} |->
                                   IF n = "field" THEN x
                                   ELSE IF n = "password" THEN Str("secret")
                                   ELSE Str("alice")]) }

RECURSIVE Nested(_)
Nested(depth) ==
    IF depth = 0 THEN Leaves
    ELSE LET inner == Nested(depth - 1)
         IN  inner \cup UNION {Wrap(x) : x \in inner}

ConvInputs == Nested(MaxDepth)

\* whether an unconvertible object is reached by the conversion of x
RECURSIVE HasUnconvertibleLeaf(_)
HasUnconvertibleLeaf(x) ==
    IF x.k = "object" THEN TRUE
    ELSE IF x.k = "dict" THEN
        \E key \in DOMAIN x.d :
            HasUnconvertibleLeaf(key) \/ HasUnconvertibleLeaf(x.d[key])
    ELSE IF x.k = "list" THEN
        \E i \in DOMAIN x.items : HasUnconvertibleLeaf(x.items[i])
    ELSE IF x.k = "model" THEN
        \E n \in (DOMAIN x.f) \ (IF x.user THEN {"password"} ELSE {}) :
            HasUnconvertibleLeaf(x.f[n])
    ELSE FALSE

ConvInit ==
    /\ cv_obj \in ConvInputs
    /\ cv_ignore \in BOOLEAN
    /\ cv_result = NotCalled

ConvIdle ==
    /\ cv_obj = NoneV
    /\ cv_ignore = FALSE
    /\ cv_result = NotCalled

\* one call convert_to_native_type(cv_obj, ignore_errors=cv_ignore)
Convert ==
    /\ cv_result = NotCalled
    /\ cv_result' = convert_to_native_type(cv_obj, cv_ignore)
    /\ UNCHANGED <<cv_obj, cv_ignore>>

(***************************************************************************)
(* Contexts: Python dicts with string keys, as functions name -> value     *)
(***************************************************************************)
\* dict.update
MapUpdate(a, b) ==
    [x \in (DOMAIN a) \cup (DOMAIN b) |-> IF x \in DOMAIN b THEN b[x] ELSE a[x]]

\* dict.get(key, default)
MapGet(m, key, default) == IF key \in DOMAIN m THEN m[key] ELSE default

\* a user record (Dojo_User)
UserV(name) ==
    ModelV("Dojo_User", TRUE,
           [n \in {"id", "username", "password"} |->
               CASE n = "id" -> Num(IF name = "alice" THEN 1 ELSE 2)
                 [] n = "username" -> Str(name)
                 [] OTHER -> Str("secret")])

(***************************************************************************)
(* ReportRenderer and its subclasses                                       *)
(***************************************************************************)
NoRenderer == [cls |-> "none"]

\* QuerySet.values(): one mapping of field values per record
QuerySetValues(qs) ==
    ListV([i \in DOMAIN qs.items |->
             StrDict([n \in DOMAIN qs.items[i].f |->
                        IF qs.items[i].f[n].k = "model"
                        THEN qs.items[i].f[n].f["id"]
                        ELSE qs.items[i].f[n]])])

\* ReportRenderer.__init__ (PdfReportRenderer.__init__ sets template and
\* filename).  shared: initial_context was not passed, so _initial_context is
\* the default dict object of the function, the same for every instance.
NewRenderer(cls, queryset, report_type, passed, initial_context) ==
    [cls |-> cls,
     queryset |-> queryset,
     report_type |-> report_type,
     shared |-> ~passed,
     initial_context |-> initial_context,
     given |-> initial_context,
     has_context |-> FALSE,
     template |-> IF cls = "pdf" THEN report_type \o "_pdf_report.html"
                  ELSE IF cls = "ascii" THEN "asciidoc_report.html"
                  ELSE "",
     filename |-> IF cls = "pdf" THEN report_type \o "_report.pdf" ELSE ""]

\* the contents of the dict object r._initial_context refers to
InitialContextOf(r, dflt) == IF r.shared THEN dflt ELSE r.initial_context

\* create_context: _context becomes (an alias of) _initial_context, and gets
\* the objects entry
create_context(r, dflt) ==
    MapUpdate(InitialContextOf(r, dflt),
              Single("objects", QuerySetValues(r.queryset)))

\* prepare_rendering: "if not self._context: self.create_context()"
prepare_rendering(r, dflt) ==
    IF ~r.has_context \/ DOMAIN InitialContextOf(r, dflt) = {}
    THEN create_context(r, dflt)
    ELSE InitialContextOf(r, dflt)

\* render: the contents of self._context after context.update(context_update)
RenderContext(r, dflt, context_update) ==
    MapUpdate(prepare_rendering(r, dflt), context_update)

\* the merged context as the mapping handed to perform_rendering
RenderedMergedMapping(r, dflt, context_update) ==
    RenderContext(r, dflt, context_update)

\* render: the mapping handed to perform_rendering
RenderedMapping(r, dflt, context_update) == context_update

\* the renderer and the default dict after render(context_update)
RendererAfterRender(r, dflt, context_update) ==
    [r EXCEPT !.has_context = TRUE,
              !.initial_context =
                  IF r.shared THEN @ ELSE RenderContext(r, dflt, context_update)]

DefaultAfterRender(r, dflt, context_update) ==
    IF r.shared THEN RenderContext(r, dflt, context_update) ELSE dflt

RendererInit ==
    /\ default_initial_context = EmptyMap
    /\ renderer = NoRenderer
    /\ history = <<>>

(***************************************************************************)
(* Report records and the PDF renderer                                     *)
(***************************************************************************)
\* Report.status of a new record (the model's default)
InitialStatus == "pending"
SuccessStatus == "success"
ErrorStatus == "error"

\* Report.objects.create(...): the record as created
NewReport(name, type, requester, options) ==
    [name |-> name, type |-> type, format |-> "PDF", requester |-> requester,
     options |-> options, status |-> InitialStatus, file |-> FALSE,
     done_datetime |-> FALSE, task_id |-> 0]

\* report.get_url()
ReportUrl(rid) == "/reports/" \o ToString(rid)

\* the id celery gives the task of job message j
TaskId(j) == 100 + j

NoException == [type |-> "none", at |-> "none"]

\* a job message not being executed
NotRunning ==
    [pc |-> "queued", report |-> NewReport(NoneV, "", NoneV, {}),
     exc |-> NoException, propagating |-> FALSE, pdf |-> FALSE,
     temp |-> "none", widgets |-> {}]

SampleUser == UserV("alice")

\* the record-set the renderers are constructed with in Spec
SampleQuerySet ==
    ListV(<<ModelV("Finding", FALSE,
                   [n \in {"id", "title"} |->
                       IF n = "id" THEN Num(1) ELSE Str("A vulnerability")])>>)

\* initial_context as the tests pass it (get_report_data)
SampleReportData ==
    [n \in {"title", "subtitle", "findings"} |->
        CASE n = "title" -> Str("My Report")
          [] n = "subtitle" -> Str("bugs everywhere")
          [] OTHER ->
                ListV(<<DictV(Single(Str("title"), Str("A vulnerability")))>>)]

\* a base context as GenericReportCreator.populate_base_context builds it
BaseContext(toc) ==
    [n \in {"host", "title", "subtitle", "report_name", "user",
            "include_table_of_contents"} |->
        CASE n = "host" -> Str("http://host.local")
          [] n = "title" -> Str("Product Report")
          [] n = "subtitle" -> Str("MyWebProduct")
          [] n = "report_name" -> Str("Product Report: MyWebProduct")
          [] n = "user" -> SampleUser
          [] OTHER -> BoolV(toc)]

\* the context updates given to PdfReportRenderer.render in Spec
PdfContextUpdates ==
    { Single("user", SampleUser),
      MapUpdate(Single("user", SampleUser),
                Single("host", Str("http://host.local"))),
      BaseContext(TRUE) }

\* PdfReportRenderer(queryset, report_type[, initial_context])
ConstructPdfRenderer ==
    /\ Len(reports) < MaxReports
    /\ \E passed \in BOOLEAN :
         renderer' = NewRenderer("pdf", SampleQuerySet, "finding", passed,
                                 IF passed THEN SampleReportData ELSE EmptyMap)
    /\ UNCHANGED <<default_initial_context, history, pdfVars, convVars,
                   creatorVars>>

\* PdfReportRenderer.perform_rendering(context): the Report it creates
PdfCreatedReport(r, context) ==
    NewReport(MapGet(context, "report_name", Str("Unnamed Report")),
              r.report_type,
              MapGet(context, "user", NoneV),
              MapGet(context, "options", {}))

\* PdfReportRenderer.perform_rendering(context): the async_pdf_report message
PdfJobMessage(r, context, rid, report) ==
    [task |-> "pdf", rid |-> rid, report |-> report,
     template |-> r.template, filename |-> r.filename,
     report_title |-> MapGet(context, "title", Str("Untitled Report")),
     report_subtitle |-> MapGet(context, "subtitle", Str("")),
     report_info |-> MapGet(context, "info", Str("")),
     context |-> context, uri |-> ReportUrl(rid), options |-> {}]

\* renderer.render(context_update) on a PdfReportRenderer: prepare_rendering,
\* context.update, perform_rendering (create the Report, enqueue the job,
\* return the AsyncResult)
PdfRender ==
    /\ renderer.cls = "pdf"
    /\ Len(reports) < MaxReports
    /\ \E cu \in PdfContextUpdates :
         LET context == RenderedMapping(renderer, default_initial_context, cu)
             rid == Len(reports) + 1
             report == PdfCreatedReport(renderer, context)
         IN  /\ renderer' = RendererAfterRender(renderer,
                                                default_initial_context, cu)
             /\ default_initial_context' =
                    DefaultAfterRender(renderer, default_initial_context, cu)
             /\ reports' = Append(reports, report)
             /\ queue' = Append(queue,
                                PdfJobMessage(renderer, context, rid, report))
             /\ deliveries' = Append(deliveries, 0)
             /\ runs' = Append(runs, NotRunning)
             /\ handles' = Append(handles, Len(queue) + 1)
             /\ notifications' = Append(notifications, <<>>)
    /\ UNCHANGED <<history, convVars, creatorVars>>

\* the widgets a custom report may select
CustomWidgetSets == {{"cover-page"}, {"table-of-contents", "cover-page"}}

\* the caller of async_custom_pdf_report: it creates the Report and enqueues
\* the job with the report's options
CustomReportRequest ==
    /\ Len(reports) < MaxReports
    /\ \E widgets \in CustomWidgetSets :
         LET rid == Len(reports) + 1
             report == NewReport(Str("Custom Report"), "custom", SampleUser,
                                 widgets)
         IN  /\ reports' = Append(reports, report)
             /\ queue' = Append(queue,
                    [task |-> "custom", rid |-> rid, report |-> report,
                     template |-> "dojo/custom_pdf_report.html",
                     filename |-> "custom_pdf_report.pdf",
                     report_title |-> NoneV, report_subtitle |-> NoneV,
                     report_info |-> NoneV,
                     context |-> Single("host", Str("http://host.local")),
                     uri |-> ReportUrl(rid), options |-> widgets])
             /\ deliveries' = Append(deliveries, 0)
             /\ runs' = Append(runs, NotRunning)
             /\ handles' = Append(handles, Len(queue) + 1)
             /\ notifications' = Append(notifications, <<>>)
    /\ UNCHANGED <<rendererVars, convVars, creatorVars>>

(***************************************************************************)
(* The task queue and the PDF jobs.  The job message holds the Report      *)
(* as it was when enqueued; every execution works on its own copy of it.   *)
(* A step that calls a collaborator (converter, template engine, storage,  *)
(* database, notification service) either completes or raises.             *)
(***************************************************************************)
Jobs == DOMAIN queue

RECURSIVE SumSeq(_)
SumSeq(q) == IF q = <<>> THEN 0 ELSE Head(q) + SumSeq(Tail(q))

\* the task queue hands job message j to a worker (again, after an earlier
\* execution has ended)
Deliver(j) ==
    /\ runs[j].pc \in {"queued", "returned", "raised"}
    /\ SumSeq(deliveries) < MaxDeliveries
    /\ deliveries' = [deliveries EXCEPT ![j] = @ + 1]
    /\ runs' = [runs EXCEPT ![j] =
                  [pc |-> IF queue[j].task = "pdf" THEN "cover" ELSE "c_config",
                   report |-> queue[j].report,
                   exc |-> NoException, propagating |-> FALSE,
                   pdf |-> FALSE, temp |-> "none", widgets |-> {}]]
    /\ UNCHANGED <<reports, queue, notifications, handles, rendererVars,
                   convVars, creatorVars>>

\* the execution of j moves to pc
Goto(j, pc) == runs' = [runs EXCEPT ![j].pc = pc]

\* an exception of the given type is raised at step `at` and control passes
\* to `pc` (an except clause)
Raise(j, type, at, pc) ==
    runs' = [runs EXCEPT ![j].pc = pc, ![j].exc = [type |-> type, at |-> at]]

\* an exception raised where no except clause catches it: it leaves the try
\* statement (through `pc`, the finally clause if there is one) and the job
Propagate(j, pc) ==
    runs' = [runs EXCEPT ![j].pc = pc, ![j].propagating = TRUE]

\* a save that writes the first row, whichever Report the job holds
SavedFirstRow(j, report) == [reports EXCEPT ![1] = report]

\* report.save(): the row becomes the job's copy of the Report
Saved(j, report) == [reports EXCEPT ![queue[j].rid] = report]

JobUnchanged ==
    UNCHANGED <<queue, deliveries, handles, rendererVars, convVars, creatorVars>>

\* create_notification(event='report_created', ..., url=uri, report=report,
\*                     objowner=report.requester)
CreatedNotification(j) ==
    [event |-> "report_created", title |-> "Report created",
     description |-> "ready", url |-> queue[j].uri,
     owner |-> runs[j].report.requester, job |-> j, run |-> deliveries[j]]

\* log_generic_alert("PDF Report", "Report Creation Failure", ...)
AlertNotification(j, description) ==
    [event |-> "other", title |-> "Report Creation Failure",
     description |-> description, url |-> "", owner |-> NoneV,
     job |-> j, run |-> deliveries[j]]

\* ---- steps common to async_pdf_report and async_custom_pdf_report

\* report.task_id = <task>.request.id; report.save()
AttachTask(j, at, next, handler) ==
    LET report == [runs[j].report EXCEPT !.task_id = TaskId(j)]
    IN  \/ /\ runs' = [runs EXCEPT ![j].report = report, ![j].pc = next]
           /\ reports' = Saved(j, report)
        \/ /\ runs' = [runs EXCEPT ![j].report = report, ![j].pc = handler,
                                   ![j].exc = [type |-> "Exception", at |-> at]]
           /\ UNCHANGED reports

\* pdf = pdfkit.from_string(...)
ConvertStep(j, next, handlerIO, handler) ==
    /\ \/ runs' = [runs EXCEPT ![j].pc = next, ![j].pdf = TRUE]
       \/ Raise(j, "IOError", "convert", handlerIO)
       \/ Raise(j, "Exception", "convert", handler)
    /\ UNCHANGED <<reports, notifications>>

\* if report.file.name: write to the existing path
\* else: report.file.save(filename, ContentFile(pdf)), which names the file,
\*       stores it and saves the record
StoreFile(j, next, handlerIO, handler) ==
    /\ IF runs[j].report.file
       THEN \/ /\ Goto(j, next)
               /\ UNCHANGED reports
            \/ /\ Raise(j, "IOError", "store", handlerIO)
               /\ UNCHANGED reports
       ELSE LET report == [runs[j].report EXCEPT !.file = TRUE]
            IN  \/ /\ runs' = [runs EXCEPT ![j].report = report,
                                           ![j].pc = next]
                   /\ reports' = Saved(j, report)
                \/ /\ Raise(j, "IOError", "store", handlerIO)
                   /\ UNCHANGED reports
                \/ /\ runs' = [runs EXCEPT ![j].report = report,
                                  ![j].pc = handler,
                                  ![j].exc = [type |-> "Exception",
                                              at |-> "store"]]
                   /\ UNCHANGED reports
    /\ UNCHANGED notifications

\* MarkSuccess without the save: the status is set on the job's copy only
MarkSuccessUnsaved(j, next, handler) ==
    LET report == [runs[j].report EXCEPT !.status = SuccessStatus,
                                         !.done_datetime = TRUE]
    IN  /\ runs' = [runs EXCEPT ![j].report = report, ![j].pc = next]
        /\ UNCHANGED <<reports, notifications>>

\* MarkSuccess without the completion stamp
MarkSuccessNoStamp(j, next, handler) ==
    LET report == [runs[j].report EXCEPT !.status = SuccessStatus]
    IN  /\ \/ /\ runs' = [runs EXCEPT ![j].report = report, ![j].pc = next]
              /\ reports' = Saved(j, report)
           \/ /\ runs' = [runs EXCEPT ![j].report = report, ![j].pc = handler,
                             ![j].exc = [type |-> "Exception", at |-> "persist"]]
              /\ UNCHANGED reports
        /\ UNCHANGED notifications

\* report.status = 'success'; report.done_datetime = timezone.now();
\* report.save()
MarkSuccess(j, next, handler) ==
    LET report == [runs[j].report EXCEPT !.status = SuccessStatus,
                                         !.done_datetime = TRUE]
    IN  /\ \/ /\ runs' = [runs EXCEPT ![j].report = report, ![j].pc = next]
              /\ reports' = Saved(j, report)
           \/ /\ runs' = [runs EXCEPT ![j].report = report, ![j].pc = handler,
                             ![j].exc = [type |-> "Exception", at |-> "persist"]]
              /\ UNCHANGED reports
        /\ UNCHANGED notifications

\* create_notification(event='report_created', ...)
NotifyCreated(j, next, handler) ==
    /\ \/ /\ Goto(j, next)
          /\ notifications' =
                 [notifications EXCEPT ![j] = Append(@, CreatedNotification(j))]
       \/ /\ Raise(j, "Exception", "notify", handler)
          /\ UNCHANGED notifications
    /\ UNCHANGED reports

\* in an except clause: report.status = 'error'; report.save().  When save
\* raises, the exception leaves the clause (`out`).
HandleError(j, next, out) ==
    LET report == [runs[j].report EXCEPT !.status = ErrorStatus]
    IN  /\ \/ /\ runs' = [runs EXCEPT ![j].report = report, ![j].pc = next]
              /\ reports' = Saved(j, report)
           \/ /\ runs' = [runs EXCEPT ![j].report = report, ![j].pc = out,
                                      ![j].propagating = TRUE]
              /\ UNCHANGED reports
        /\ UNCHANGED notifications

\* in an except clause: log_generic_alert(...)
Alert(j, description, next, out) ==
    /\ \/ /\ Goto(j, next)
          /\ notifications' =
                 [notifications EXCEPT
                     ![j] = Append(@, AlertNotification(j, description))]
       \/ /\ Propagate(j, out)
          /\ UNCHANGED notifications
    /\ UNCHANGED reports

(***************************************************************************)
(* async_pdf_report                                                        *)
(***************************************************************************)
\* xsl_style_sheet, urlencode, cover = context['host'] + reverse(...) + ...
\* (before the try statement: a missing 'host' key raises KeyError)
PdfCover(j) ==
    /\ runs[j].pc = "cover"
    /\ IF "host" \in DOMAIN queue[j].context
       THEN Goto(j, "configure")
       ELSE runs' = [runs EXCEPT ![j].pc = "raised", ![j].propagating = TRUE,
                        ![j].exc = [type |-> "KeyError", at |-> "cover"]]
    /\ UNCHANGED <<reports, notifications>>
    /\ JobUnchanged

\* config = pdfkit.configuration(wkhtmltopdf=settings.WKHTMLTOPDF_PATH)
PdfConfigure(j) ==
    /\ runs[j].pc = "configure"
    /\ \/ Goto(j, "attach")
       \/ Raise(j, "IOError", "configure", "except_io")
    /\ UNCHANGED <<reports, notifications>>
    /\ JobUnchanged

PdfAttachTask(j) ==
    /\ runs[j].pc = "attach"
    /\ AttachTask(j, "attach", "render", "except")
    /\ UNCHANGED notifications
    /\ JobUnchanged

\* bytes = render_to_string(template, context);
\* itoc = context['include_table_of_contents']; toc = ...
PdfRenderTemplate(j) ==
    /\ runs[j].pc = "render"
    /\ \/ /\ "include_table_of_contents" \in DOMAIN queue[j].context
          /\ Goto(j, "convert")
       \/ Raise(j, "Exception", "render", "except")
       \/ /\ "include_table_of_contents" \notin DOMAIN queue[j].context
          /\ Raise(j, "KeyError", "toc_flag", "except")
    /\ UNCHANGED <<reports, notifications>>
    /\ JobUnchanged

PdfConvert(j) ==
    /\ runs[j].pc = "convert"
    /\ ConvertStep(j, "store", "except_io", "except")
    /\ JobUnchanged

PdfStoreFile(j) ==
    /\ runs[j].pc = "store"
    /\ StoreFile(j, "success", "except_io", "except")
    /\ JobUnchanged

PdfMarkSuccess(j) ==
    /\ runs[j].pc = "success"
    /\ MarkSuccess(j, "notify", "except")
    /\ JobUnchanged

PdfNotify(j) ==
    /\ runs[j].pc = "notify"
    /\ NotifyCreated(j, "return", "except")
    /\ JobUnchanged

\* except IOError / except Exception: report.status = 'error'; report.save()
PdfHandleError(j) ==
    /\ \/ /\ runs[j].pc = "except_io"
          /\ HandleError(j, "alert_io", "raised")
       \/ /\ runs[j].pc = "except"
          /\ HandleError(j, "alert", "raised")
    /\ JobUnchanged

\* logger.error(...); log_generic_alert(...) of the two except clauses
PdfAlert(j) ==
    /\ \/ /\ runs[j].pc = "alert_io"
          /\ Alert(j, "Something went terribly wrong. ", "return", "raised")
       \/ /\ runs[j].pc = "alert"
          /\ Alert(j, "Make sure WKHTMLTOPDF is installed. ", "return",
                   "raised")
    /\ JobUnchanged

\* return True
PdfReturn(j) ==
    /\ runs[j].pc = "return"
    /\ Goto(j, "returned")
    /\ UNCHANGED <<reports, notifications>>
    /\ JobUnchanged

(***************************************************************************)
(* async_custom_pdf_report                                                 *)
(***************************************************************************)
\* config = pdfkit.configuration(...): before the try statement
CustomConfigure(j) ==
    /\ runs[j].pc = "c_config"
    /\ \/ Goto(j, "c_widgets")
       \/ runs' = [runs EXCEPT ![j].pc = "raised", ![j].propagating = TRUE,
                      ![j].exc = [type |-> "IOError", at |-> "configure"]]
    /\ UNCHANGED <<reports, notifications>>
    /\ JobUnchanged

\* selected_widgets = report_widget_factory(json_data=report.options, ...);
\* widgets = selected_widgets.values(); temp = None: before the try statement
CustomWidgets(j) ==
    /\ runs[j].pc = "c_widgets"
    /\ \/ runs' = [runs EXCEPT ![j].pc = "c_attach",
                               ![j].widgets = runs[j].report.options]
       \/ runs' = [runs EXCEPT ![j].pc = "raised", ![j].propagating = TRUE,
                      ![j].exc = [type |-> "Exception", at |-> "widgets"]]
    /\ UNCHANGED <<reports, notifications>>
    /\ JobUnchanged

CustomAttachTask(j) ==
    /\ runs[j].pc = "c_attach"
    /\ AttachTask(j, "attach", "c_toc", "c_except")
    /\ UNCHANGED notifications
    /\ JobUnchanged

\* if 'table-of-contents' in selected_widgets: temp = NamedTemporaryFile();
\* toc_bytes = render_to_string(...); temp.write(toc_bytes); temp.seek(0)
CustomToc(j) ==
    /\ runs[j].pc = "c_toc"
    /\ IF "table-of-contents" \in runs[j].widgets
       THEN \/ runs' = [runs EXCEPT ![j].pc = "c_render", ![j].temp = "open"]
            \/ Raise(j, "IOError", "tempfile", "c_except")
            \/ runs' = [runs EXCEPT ![j].pc = "c_except", ![j].temp = "open",
                           ![j].exc = [type |-> "Exception", at |-> "render"]]
       ELSE Goto(j, "c_render")
    /\ UNCHANGED <<reports, notifications>>
    /\ JobUnchanged

\* the cover URL (if 'cover-page' in selected_widgets) and
\* bytes = render_to_string(template, {...})
CustomRenderTemplate(j) ==
    /\ runs[j].pc = "c_render"
    /\ \/ Goto(j, "c_convert")
       \/ Raise(j, "Exception", "render", "c_except")
    /\ UNCHANGED <<reports, notifications>>
    /\ JobUnchanged

CustomConvert(j) ==
    /\ runs[j].pc = "c_convert"
    /\ ConvertStep(j, "c_store", "c_except", "c_except")
    /\ JobUnchanged

CustomStoreFile(j) ==
    /\ runs[j].pc = "c_store"
    /\ StoreFile(j, "c_success", "c_except", "c_except")
    /\ JobUnchanged

CustomMarkSuccess(j) ==
    /\ runs[j].pc = "c_success"
    /\ MarkSuccess(j, "c_notify", "c_except")
    /\ JobUnchanged

CustomNotify(j) ==
    /\ runs[j].pc = "c_notify"
    /\ NotifyCreated(j, "c_finally", "c_except")
    /\ JobUnchanged

\* except Exception: report.status = 'error'; report.save()
CustomHandleError(j) ==
    /\ runs[j].pc = "c_except"
    /\ HandleError(j, "c_alert", "c_finally")
    /\ JobUnchanged

CustomAlert(j) ==
    /\ runs[j].pc = "c_alert"
    /\ Alert(j, "Make sure WKHTMLTOPDF is installed. ", "c_finally",
             "c_finally")
    /\ JobUnchanged

\* a finally clause that leaves the temporary file as it is
CustomFinallyNoClose(j) ==
    /\ runs[j].pc = "c_finally"
    /\ runs' = [runs EXCEPT
                  ![j].pc = IF runs[j].propagating THEN "raised"
                            ELSE "c_return"]
    /\ UNCHANGED <<reports, notifications>>
    /\ JobUnchanged

\* finally: if temp is not None: temp.close(); then the exception that left
\* the except clause, if any, goes on
CustomFinally(j) ==
    /\ runs[j].pc = "c_finally"
    /\ runs' = [runs EXCEPT
                  ![j].temp = IF @ = "none" THEN "none" ELSE "closed",
                  ![j].pc = IF runs[j].propagating THEN "raised"
                            ELSE "c_return"]
    /\ UNCHANGED <<reports, notifications>>
    /\ JobUnchanged

\* return True
CustomReturn(j) ==
    /\ runs[j].pc = "c_return"
    /\ Goto(j, "returned")
    /\ UNCHANGED <<reports, notifications>>
    /\ JobUnchanged

(***************************************************************************)
(* Spec: the PDF renderer, the task queue and the PDF jobs                 *)
(***************************************************************************)
PdfInit ==
    /\ reports = <<>>
    /\ queue = <<>>
    /\ deliveries = <<>>
    /\ runs = <<>>
    /\ notifications = <<>>
    /\ handles = <<>>

(***************************************************************************)
(* Domain records (dojo.models): the relations the creators traverse       *)
(***************************************************************************)
Users == {"alice", "bob"}
ProductTypes == {1, 2}
Products == {1, 2}
Engagements == {1, 2}
Tests == {1, 2}
Endpoints == {1, 2, 3, 4}
Findings == {1, 2, 3}

\* Endpoint.host, as its characters: a host, the same host with a port, a host
\* that starts with it, and a host that differs in the place of its dot
EndpointHost(ep) ==
    CASE ep = 1 -> <<"a", ".", "b">>
      [] ep = 2 -> <<"a", ".", "b", ":", "8">>
      [] ep = 3 -> <<"a", ".", "b", "c">>
      [] OTHER -> <<"a", "x", "b">>

\* the month every finding of the sample data is dated, and the current month
SampleMonth == (2018 * 12) + 2

\* the states of the domain records the creators are run on
DbStates ==
    [prod_type : {[p \in Products |-> IF p = 1 THEN 1 ELSE pt] :
                     pt \in ProductTypes},
     authorized : [Products -> {{}, {"alice"}}],
     product : {[e \in Engagements |-> e]},
     engagement : {[t \in Tests |-> t]},
     test : {[f \in Findings |-> IF f = 1 THEN 1 ELSE 2]},
     ep_product : {[ep \in Endpoints |-> IF ep <= 2 THEN 1 ELSE p] :
                      p \in Products},
     endpoints : {[f \in Findings |-> IF f = 3 THEN eps ELSE {f}] :
                     eps \in {{}, {3}, {4}}},
     date : {[f \in Findings |-> IF f = 3 THEN d ELSE SampleMonth] :
                d \in {SampleMonth - 13, SampleMonth, SampleMonth + 2}},
     now : {SampleMonth}]

\* the domain records in the specifications that run no creator
SampleDb ==
    [prod_type |-> [p \in Products |-> p],
     authorized |-> [p \in Products |-> {"alice"}],
     product |-> [e \in Engagements |-> e],
     engagement |-> [t \in Tests |-> t],
     test |-> [f \in Findings |-> IF f = 1 THEN 1 ELSE 2],
     ep_product |-> [ep \in Endpoints |-> IF ep <= 2 THEN 1 ELSE 2],
     endpoints |-> [f \in Findings |-> IF f = 3 THEN {} ELSE {f}],
     date |-> [f \in Findings |-> SampleMonth],
     now |-> SampleMonth]

RECURSIVE SortedSeq(_)
SortedSeq(S) ==
    IF S = {} THEN <<>>
    ELSE LET m == CHOOSE x \in S : \A y \in S : x <= y
         IN  <<m>> \o SortedSeq(S \ {m})

RECURSIVE JoinChars(_)
JoinChars(q) == IF q = <<>> THEN "" ELSE Head(q) \o JoinChars(Tail(q))

\* Endpoint.host_no_port: the host up to its first ":"
RECURSIVE host_no_port(_)
host_no_port(h) ==
    IF h = <<>> \/ Head(h) = ":" THEN <<>>
    ELSE <<Head(h)>> \o host_no_port(Tail(h))

\* the date of month number m (months since year 0), first day
MonthDate(m) == DateV(m \div 12, (m % 12) + 1, 1)

\* ---- the records as model instances
ProductTypeObj(pt) ==
    ModelV("Product_Type", FALSE,
           [n \in {"id", "name"} |->
               IF n = "id" THEN Num(pt) ELSE Str("Type" \o ToString(pt))])

ProductObj(p) ==
    ModelV("Product", FALSE,
           [n \in {"id", "name", "prod_type"} |->
               CASE n = "id" -> Num(p)
                 [] n = "name" -> Str("Product" \o ToString(p))
                 [] OTHER -> ProductTypeObj(db.prod_type[p])])

EngagementObj(e) ==
    ModelV("Engagement", FALSE,
           [n \in {"id", "name", "product"} |->
               CASE n = "id" -> Num(e)
                 [] n = "name" -> Str("Engagement" \o ToString(e))
                 [] OTHER -> ProductObj(db.product[e])])

TestObj(t) ==
    ModelV("Test", FALSE,
           [n \in {"id", "engagement"} |->
               IF n = "id" THEN Num(t) ELSE EngagementObj(db.engagement[t])])

EndpointObj(ep) ==
    ModelV("Endpoint", FALSE,
           [n \in {"id", "host", "product"} |->
               CASE n = "id" -> Num(ep)
                 [] n = "host" -> Str(JoinChars(EndpointHost(ep)))
                 [] OTHER -> ProductObj(db.ep_product[ep])])

FindingObj(f) ==
    ModelV("Finding", FALSE,
           [n \in {"id", "title", "date", "test", "reporter"} |->
               CASE n = "id" -> Num(f)
                 [] n = "title" -> Str("Finding" \o ToString(f))
                 [] n = "date" -> MonthDate(db.date[f])
                 [] n = "test" -> TestObj(db.test[f])
                 [] OTHER -> UserV("reporter-user")])

ModelClasses ==
    {"Product_Type", "Product", "Engagement", "Test", "Endpoint", "Finding"}

\* <cls>.objects.all(): the ids of the records of the class
AllIds(cls) ==
    CASE cls = "Product_Type" -> ProductTypes
      [] cls = "Product" -> Products
      [] cls = "Engagement" -> Engagements
      [] cls = "Test" -> Tests
      [] cls = "Endpoint" -> Endpoints
      [] OTHER -> Findings

Obj(cls, id) ==
    CASE cls = "Product_Type" -> ProductTypeObj(id)
      [] cls = "Product" -> ProductObj(id)
      [] cls = "Engagement" -> EngagementObj(id)
      [] cls = "Test" -> TestObj(id)
      [] cls = "Endpoint" -> EndpointObj(id)
      [] OTHER -> FindingObj(id)

\* a record-set of the class as the iterable the converter sees, in the
\* default order
QuerySet(cls, ids) ==
    LET order == SortedSeq(ids)
    IN  ListV([i \in DOMAIN order |-> Obj(cls, order[i])])

\* the product a finding belongs to
FindingProduct(f) == db.product[db.engagement[db.test[f]]]

(***************************************************************************)
(* json.dumps: the JSON document of a native value.  Keys of a mapping     *)
(* become strings.                                                         *)
(***************************************************************************)
JsonNull == [k |-> "null"]

JsonKey(key) ==
    CASE key.k = "str" -> key.s
      [] key.k = "num" -> ToString(key.n)
      [] key.k = "bool" -> IF key.b THEN "true" ELSE "false"
      [] OTHER -> "null"

RECURSIVE JsonDumps(_)
JsonDumps(v) ==
    IF v.k = "dict" THEN
        [k |-> "object",
         members |-> [name \in {JsonKey(key) : key \in DOMAIN v.d} |->
                        JsonDumps(v.d[CHOOSE key \in DOMAIN v.d :
                                          JsonKey(key) = name])]]
    ELSE IF v.k = "list" THEN
        [k |-> "array", items |-> [i \in DOMAIN v.items |-> JsonDumps(v.items[i])]]
    ELSE IF v.k = "none" THEN JsonNull
    ELSE v

\* what a render call returned: a JSON document, or the exception it raised
NoOutput == [called |-> FALSE, ok |-> FALSE, exc |-> "none", json |-> JsonNull]
Returned(json) == [called |-> TRUE, ok |-> TRUE, exc |-> "none", json |-> json]
Failed(exc) == [called |-> TRUE, ok |-> FALSE, exc |-> exc, json |-> JsonNull]

\* JsonReportRenderer.perform_rendering(context)
JsonPerformRendering(context) ==
    LET native == convert_to_native_type(StrDict(context), FALSE)
    IN  IF native.ok THEN Returned(JsonDumps(native.v)) ELSE Failed("ValueError")

(***************************************************************************)
(* The report creators                                                     *)
(***************************************************************************)
FlagNames == {"include_finding_notes", "include_finding_images",
              "include_executive_summary", "include_table_of_contents"}

\* IncludeFlags(...): each flag popped from the parameters, False by default
IncludeFlags(context_kwargs) ==
    [n \in FlagNames |-> MapGet(context_kwargs, n, BoolV(FALSE))]

NoFlags == [n \in FlagNames |-> NoneV]

\* the request parameters populate is called with
ParamSets == {EmptyMap, Single("include_finding_notes", BoolV(TRUE))}

NoCreator ==
    [cls |-> "none", user |-> "", host |-> "", parameters |-> EmptyMap,
     base_context |-> EmptyMap, include_flags |-> NoFlags,
     has_queryset |-> FALSE, queryset |-> {}, root_nodes |-> {},
     instance |-> 0, root |-> {}, populates |-> 0, renders |-> 0,
     format |-> "", kwargs |-> EmptyMap, filter_criteria |-> EmptyMap,
     filter_data |-> EmptyMap, months |-> 0]

\* GenericReportCreator.__init__ of the creator class for model class cls.
\* The fields from root on are not attributes, they record the calls: the
\* root and the parameters the last populate was given, the numbers of
\* populate and render calls, the format the last render was given, the
\* criteria populate gave to objects.filter, the data it gave to the finding
\* filter and the number of months it asked get_period_counts_legacy for.
NewCreator(cls, user, host) ==
    [NoCreator EXCEPT !.cls = cls, !.user = user, !.host = host]

\* <cls>.objects.filter(**criteria)
ObjectsFilter(cls, criteria) ==
    {id \in AllIds(cls) :
        \A n \in DOMAIN criteria : Obj(cls, id).f[n] = criteria[n]}

\* add_authorizing_filter of the creator class
add_authorizing_filter(cls, user, qs) ==
    CASE cls = "Product" -> {p \in qs : user \in db.authorized[p]}
      [] cls = "Endpoint" ->
            {ep \in qs : user \in db.authorized[db.ep_product[ep]]}
      [] OTHER -> qs

\* str(test)
TestStr(t) == "Test" \o ToString(t)

report_title(c) == c.cls \o " Report"

\* report_subtitle of the creator class
report_subtitle(c) ==
    CASE c.cls = "Test" -> TestStr(c.instance)
      [] c.cls = "Endpoint" -> JoinChars(host_no_port(EndpointHost(c.instance)))
      [] c.cls = "Finding" -> ""
      [] OTHER ->
            IF c.root_nodes # {}
            THEN Obj(c.cls, SortedSeq(c.root_nodes)[1]).f["name"].s
            ELSE ""

report_name(c) == report_title(c) \o ": " \o report_subtitle(c)

TeamName == "Security Team"

\* populate_base_context: the entries it puts into base_context
populate_base_context(c) ==
    [n \in {"host", "title", "subtitle", "report_name", "user", "team_name",
            "parameters"} \cup FlagNames |->
        CASE n = "host" -> Str(c.host)
          [] n = "title" -> Str(report_title(c))
          [] n = "subtitle" -> Str(report_subtitle(c))
          [] n = "report_name" -> Str(report_name(c))
          [] n = "user" -> UserV(c.user)
          [] n = "team_name" -> Str(TeamName)
          [] n = "parameters" -> StrDict(c.parameters)
          [] OTHER -> c.include_flags[n]]

\* GenericReportCreator.populate(**context_kwargs)
GenericPopulate(c, context_kwargs) ==
    LET rest == [n \in (DOMAIN context_kwargs) \ FlagNames |-> context_kwargs[n]]
        qs == add_authorizing_filter(c.cls, c.user, ObjectsFilter(c.cls, rest))
        c1 == [c EXCEPT !.include_flags = IncludeFlags(context_kwargs),
                        !.queryset = qs, !.has_queryset = TRUE,
                        !.root_nodes = qs, !.kwargs = context_kwargs,
                        !.filter_criteria = rest]
    IN  [c1 EXCEPT !.base_context = MapUpdate(@, populate_base_context(c1))]

\* the creator after ReportFindingFilter(data, ...) or
\* ReportAuthedFindingFilter(data, ...) was constructed
FindingFilterCalled(c, data) == [c EXCEPT !.filter_data = data]

\* ReportFindingFilter(data, queryset).qs: data carries no finding criterion
ReportFindingFilter(data, queryset) == queryset

\* ReportAuthedFindingFilter(data, queryset, user).qs: the findings of the
\* products the user is authorized for
ReportAuthedFindingFilter(data, queryset, user) ==
    {f \in queryset : user \in db.authorized[FindingProduct(f)]}

\* the regular expression "^" + host + ":?" searched in target: "." matches
\* any character, ":?" matches with or without a colon
HostRegexMatches(host, target) ==
    /\ Len(target) >= Len(host)
    /\ \A i \in 1..Len(host) : host[i] = "." \/ host[i] = target[i]

\* relativedelta(end_date, start_date), the dates being month numbers: the
\* whole months between them as years and months of the same sign
relativedelta(end_date, start_date) ==
    LET diff == end_date - start_date
        mag == IF diff < 0 THEN 0 - diff ELSE diff
        sign == IF diff < 0 THEN 0 - 1 ELSE 1
    IN  [years |-> sign * (mag \div 12), months |-> sign * (mag % 12)]

\* months_between of ProductTypeReportCreator.populate
months_between(findings) ==
    LET order == SortedSeq(findings)
        start_date == IF findings # {} THEN db.date[order[Len(order)]]
                      ELSE db.now
        end_date == db.now
        r == relativedelta(end_date, start_date)
    IN  ((r.years * 12) + r.months) + 1

\* get_period_counts_legacy(...)['opened_per_period']: one row per month
opened_per_period(findings, months) ==
    ListV([i \in 1..(IF months > 0 THEN months ELSE 0) |->
             ListV(<<Num(i), Num(Cardinality(findings))>>)])

CreatorUnchanged ==
    UNCHANGED <<db, rendererVars, pdfVars, convVars>>

\* creator_class(user, host=host)
Construct ==
    /\ creator = NoCreator
    /\ \E cls \in ModelClasses, user \in Users :
         creator' = NewCreator(cls, user, "http://host.local")
    /\ output' = NoOutput
    /\ CreatorUnchanged

Populated(c, root, entries) ==
    /\ creator' = [c EXCEPT !.base_context = MapUpdate(@, entries),
                            !.root = root, !.populates = @ + 1]
    /\ output' = NoOutput
    /\ CreatorUnchanged

\* ProductTypeReportCreator.populate(product_type, **context_kwargs)
PopulateProductType ==
    /\ creator.cls = "Product_Type"
    /\ creator.populates < MaxPopulates
    /\ \E product_type \in ProductTypes, context_kwargs \in ParamSets :
         LET c == GenericPopulate(creator, context_kwargs)
             findings == ReportFindingFilter(context_kwargs,
                 {f \in Findings :
                     db.prod_type[FindingProduct(f)] = product_type})
             products == {p \in Products :
                 /\ db.prod_type[p] = product_type
                 /\ \E f \in findings : FindingProduct(f) = p}
             engagements == {e \in Engagements :
                 /\ db.prod_type[db.product[e]] = product_type
                 /\ \E f \in findings : db.engagement[db.test[f]] = e}
             tests == {t \in Tests :
                 /\ db.prod_type[db.product[db.engagement[t]]] = product_type
                 /\ \E f \in findings : db.test[f] = t}
         IN  Populated([FindingFilterCalled(c, context_kwargs)
                           EXCEPT !.months = months_between(findings)],
                       {product_type},
                [n \in {"product_type", "products", "engagements", "tests",
                        "findings", "endpoint_opened_per_month",
                        "endpoint_active_findings"} |->
                    CASE n = "product_type" -> ProductTypeObj(product_type)
                      [] n = "products" -> QuerySet("Product", products)
                      [] n = "engagements" -> QuerySet("Engagement", engagements)
                      [] n = "tests" -> QuerySet("Test", tests)
                      [] n = "endpoint_opened_per_month" ->
                            opened_per_period(findings, months_between(findings))
                      [] OTHER -> QuerySet("Finding", findings)])

\* ProductReportCreator.populate(product, **context_kwargs)
PopulateProduct ==
    /\ creator.cls = "Product"
    /\ creator.populates < MaxPopulates
    /\ \E product \in Products, context_kwargs \in ParamSets :
         LET c == GenericPopulate(creator, context_kwargs)
             findings == ReportFindingFilter(context_kwargs,
                 {f \in Findings : FindingProduct(f) = product})
             engagements == {e \in Engagements :
                 \E f \in findings : db.engagement[db.test[f]] = e}
             tests == {t \in Tests : \E f \in findings : db.test[f] = t}
         IN  Populated(FindingFilterCalled(c, context_kwargs), {product},
                [n \in {"product", "engagements", "tests", "findings"} |->
                    CASE n = "product" -> ProductObj(product)
                      [] n = "engagements" -> QuerySet("Engagement", engagements)
                      [] n = "tests" -> QuerySet("Test", tests)
                      [] OTHER -> QuerySet("Finding", findings)])

\* EngagementReportCreator.populate(engagement, **context_kwargs)
PopulateEngagement ==
    /\ creator.cls = "Engagement"
    /\ creator.populates < MaxPopulates
    /\ \E engagement \in Engagements, context_kwargs \in ParamSets :
         LET c == GenericPopulate(creator, context_kwargs)
             findings == ReportFindingFilter(context_kwargs,
                 {f \in Findings : db.engagement[db.test[f]] = engagement})
             tests == {t \in Tests : \E f \in findings : db.test[f] = t}
         IN  Populated(FindingFilterCalled(c, context_kwargs), {engagement},
                [n \in {"engagement", "tests", "findings"} |->
                    CASE n = "engagement" -> EngagementObj(engagement)
                      [] n = "tests" -> QuerySet("Test", tests)
                      [] OTHER -> QuerySet("Finding", findings)])

\* TestReportCreator.populate(test, **context_kwargs)
PopulateTest ==
    /\ creator.cls = "Test"
    /\ creator.populates < MaxPopulates
    /\ \E test \in Tests, context_kwargs \in ParamSets :
         LET c == GenericPopulate([creator EXCEPT !.instance = test],
                                  context_kwargs)
             findings == ReportFindingFilter(context_kwargs,
                 {f \in Findings : db.test[f] = test})
         IN  Populated(FindingFilterCalled(c, context_kwargs), {test},
                [n \in {"test", "findings"} |->
                    IF n = "test" THEN TestObj(test)
                    ELSE QuerySet("Finding", findings)])

\* EndpointReportCreator.populate(endpoint, **context_kwargs)
PopulateEndpoint ==
    /\ creator.cls = "Endpoint"
    /\ creator.populates < MaxPopulates
    /\ \E endpoint \in Endpoints, context_kwargs \in ParamSets :
         LET c == GenericPopulate([creator EXCEPT !.instance = endpoint],
                                  context_kwargs)
             host == host_no_port(EndpointHost(endpoint))
             endpoints == {ep \in Endpoints :
                 /\ HostRegexMatches(host, EndpointHost(ep))
                 /\ db.ep_product[ep] = db.ep_product[endpoint]}
             findings == ReportFindingFilter(context_kwargs,
                 {f \in Findings : db.endpoints[f] \cap endpoints # {}})
         IN  Populated(FindingFilterCalled(c, context_kwargs), {endpoint},
                [n \in {"endpoint", "endpoints", "findings"} |->
                    CASE n = "endpoint" -> EndpointObj(endpoint)
                      [] n = "endpoints" -> QuerySet("Endpoint", endpoints)
                      [] OTHER -> QuerySet("Finding", findings)])

\* the finding sets a Finding-scoped report is populated with
FindingSets == {Findings, {1}, {2, 3}}

\* FindingReportCreator.populate(finding_qs, **context_kwargs)
PopulateFindings ==
    /\ creator.cls = "Finding"
    /\ creator.populates < MaxPopulates
    /\ \E finding_qs \in FindingSets, context_kwargs \in ParamSets :
         LET c == GenericPopulate(creator, context_kwargs)
             findings == ReportAuthedFindingFilter(context_kwargs, finding_qs,
                                                   creator.user)
         IN  Populated(FindingFilterCalled(c, context_kwargs), finding_qs,
                Single("findings", QuerySet("Finding", findings)))

\* report_type of GenericReportCreator.render
ReportTypeOf(cls) ==
    CASE cls = "Product_Type" -> "product_type"
      [] cls = "Product" -> "product"
      [] cls = "Engagement" -> "engagement"
      [] cls = "Test" -> "test"
      [] cls = "Endpoint" -> "endpoint"
      [] OTHER -> "finding"

\* the formats of _renderer_map
RendererFormats == {"application/json", "application/pdf", "text/plain"}

\* formats render is called with that are not in _renderer_map
OtherFormats == {"text/html", "application/xml"}

\* the formats render is called with
Formats == RendererFormats \cup OtherFormats

\* a table that falls back to the JSON renderer
renderer_class_or_json(format) ==
    CASE format = "application/pdf" -> "pdf"
      [] format = "text/plain" -> "ascii"
      [] OTHER -> "json"

\* self._renderer_map[format]: the renderer class, or KeyError
renderer_class(format) ==
    CASE format = "application/json" -> "json"
      [] format = "application/pdf" -> "pdf"
      [] format = "text/plain" -> "ascii"
      [] OTHER -> "KeyError"

\* prepare_rendering raises AttributeError: it calls create_context, where
\* self._queryset.values() is evaluated, and _queryset is None
PrepareNeverRaises(r, dflt, has_queryset) == FALSE

PrepareRaises(r, dflt, has_queryset) ==
    /\ ~r.has_context \/ DOMAIN InitialContextOf(r, dflt) = {}
    /\ ~has_queryset

\* the creator after render(format)
AfterRender(format) ==
    [creator EXCEPT !.renders = @ + 1, !.format = format]

\* what render returns for a format that is not JSON: the AsyncResult of the
\* job, the text a template produced
Handle(j) == [k |-> "handle", job |-> j]
Text(template) == [k |-> "text", template |-> template]

\* creator.render('application/json'): a JsonReportRenderer on _queryset,
\* constructed without initial_context, renders base_context.  Before
\* populate, _queryset is None and create_context raises.
RenderJson ==
    /\ creator # NoCreator
    /\ creator.renders < MaxCreatorRenders
    /\ LET r == NewRenderer("json", QuerySet(creator.cls, creator.queryset),
                            ReportTypeOf(creator.cls), FALSE, EmptyMap)
       IN  IF PrepareRaises(r, default_initial_context, creator.has_queryset)
           THEN /\ output' = Failed("AttributeError")
                /\ UNCHANGED default_initial_context
           ELSE /\ output' = JsonPerformRendering(
                       RenderedMapping(r, default_initial_context,
                                       creator.base_context))
                /\ default_initial_context' =
                       DefaultAfterRender(r, default_initial_context,
                                          creator.base_context)
    /\ \E format \in Formats :
         /\ renderer_class(format) = "json"
         /\ creator' = AfterRender(format)
    /\ UNCHANGED <<db, renderer, history, pdfVars, convVars>>

\* creator.render('application/pdf'): a PdfReportRenderer on _queryset renders
\* base_context: it creates the Report, enqueues the job and returns the
\* AsyncResult.  Before populate, create_context raises.
RenderPdf ==
    /\ creator # NoCreator
    /\ creator.renders < MaxCreatorRenders
    /\ Len(reports) < MaxReports
    /\ LET r == NewRenderer("pdf", QuerySet(creator.cls, creator.queryset),
                            ReportTypeOf(creator.cls), FALSE, EmptyMap)
           context == RenderedMapping(r, default_initial_context,
                                      creator.base_context)
           rid == Len(reports) + 1
           report == PdfCreatedReport(r, context)
       IN  IF PrepareRaises(r, default_initial_context, creator.has_queryset)
           THEN /\ output' = Failed("AttributeError")
                /\ UNCHANGED <<default_initial_context, pdfVars>>
           ELSE /\ output' = Returned(Handle(Len(queue) + 1))
                /\ default_initial_context' =
                       DefaultAfterRender(r, default_initial_context,
                                          creator.base_context)
                /\ reports' = Append(reports, report)
                /\ queue' = Append(queue,
                                   PdfJobMessage(r, context, rid, report))
                /\ deliveries' = Append(deliveries, 0)
                /\ runs' = Append(runs, NotRunning)
                /\ handles' = Append(handles, Len(queue) + 1)
                /\ notifications' = Append(notifications, <<>>)
    /\ \E format \in Formats :
         /\ renderer_class(format) = "pdf"
         /\ creator' = AfterRender(format)
    /\ UNCHANGED <<db, renderer, history, convVars>>

\* creator.render('text/plain'): an AsciiReportRenderer on _queryset renders
\* base_context with its template; get_template or template.render may
\* raise.  Before populate, create_context raises.
RenderAscii ==
    /\ creator # NoCreator
    /\ creator.renders < MaxCreatorRenders
    /\ LET r == NewRenderer("ascii", QuerySet(creator.cls, creator.queryset),
                            ReportTypeOf(creator.cls), FALSE, EmptyMap)
       IN  IF PrepareRaises(r, default_initial_context, creator.has_queryset)
           THEN /\ output' = Failed("AttributeError")
                /\ UNCHANGED default_initial_context
           ELSE /\ \E rendered \in BOOLEAN :
                      output' = IF rendered THEN Returned(Text(r.template))
                                ELSE Failed("TemplateError")
                /\ default_initial_context' =
                       DefaultAfterRender(r, default_initial_context,
                                          creator.base_context)
    /\ \E format \in Formats :
         /\ renderer_class(format) = "ascii"
         /\ creator' = AfterRender(format)
    /\ UNCHANGED <<db, renderer, history, pdfVars, convVars>>

\* creator.render(format) with a format that is not in _renderer_map:
\* self._renderer_map[format] raises KeyError
RenderUnsupported ==
    /\ creator # NoCreator
    /\ creator.renders < MaxCreatorRenders
    /\ \E format \in Formats :
         /\ renderer_class(format) = "KeyError"
         /\ creator' = AfterRender(format)
    /\ output' = Failed("KeyError")
    /\ UNCHANGED <<db, rendererVars, pdfVars, convVars>>

CreatorInit ==
    /\ db \in DbStates
    /\ creator = NoCreator
    /\ output = NoOutput

CreatorIdle ==
    /\ db = SampleDb
    /\ creator = NoCreator
    /\ output = NoOutput

(***************************************************************************)
(* JsonReportRenderer used directly                                        *)
(***************************************************************************)
\* the record-sets a JSON renderer is constructed with
JsonQuerySets == {ListV(<<>>), SampleQuerySet}

\* the initial contexts passed to the constructor
JsonInitialContexts == {EmptyMap, SampleReportData}

\* the context updates render is called with
JsonContextUpdates ==
    { EmptyMap,
      Single("title", Str("Another Report")),
      Single("objects", Str("override")),
      Single("info", Num(1)) }

\* JsonReportRenderer(queryset, report_type[, initial_context])
ConstructJsonRenderer ==
    /\ \E queryset \in JsonQuerySets, passed \in BOOLEAN,
          initial_context \in JsonInitialContexts :
         /\ ~passed => initial_context = EmptyMap
         /\ renderer' = NewRenderer("json", queryset, "finding", passed,
                                    initial_context)
    /\ output' = NoOutput
    /\ UNCHANGED <<default_initial_context, history, db, creator, pdfVars,
                   convVars>>

\* a render call as recorded: the record-set and the initial context the
\* renderer was constructed with, the context update, and what it returned
RenderCall(r, cu, out) ==
    [queryset |-> r.queryset, passed |-> ~r.shared, initial_context |-> r.given,
     context_update |-> cu, out |-> out]

\* renderer.render(context_update) on a JsonReportRenderer
JsonRender ==
    /\ renderer.cls = "json"
    /\ Len(history) < MaxRenders
    /\ \E cu \in JsonContextUpdates :
         /\ output' = JsonPerformRendering(
                RenderedMapping(renderer, default_initial_context, cu))
         /\ history' = Append(history,
                RenderCall(renderer, cu, JsonPerformRendering(
                    RenderedMapping(renderer, default_initial_context, cu))))
         /\ renderer' = RendererAfterRender(renderer, default_initial_context,
                                            cu)
         /\ default_initial_context' =
                DefaultAfterRender(renderer, default_initial_context, cu)
    /\ UNCHANGED <<db, creator, pdfVars, convVars>>

vars == <<convVars, rendererVars, pdfVars, creatorVars>>

Init == ConvIdle /\ RendererInit /\ PdfInit /\ CreatorIdle

Next ==
    \/ ConstructPdfRenderer
    \/ PdfRender
    \/ CustomReportRequest
    \/ \E j \in Jobs : Deliver(j)
    \/ \E j \in Jobs : PdfCover(j)
    \/ \E j \in Jobs : PdfConfigure(j)
    \/ \E j \in Jobs : PdfAttachTask(j)
    \/ \E j \in Jobs : PdfRenderTemplate(j)
    \/ \E j \in Jobs : PdfConvert(j)
    \/ \E j \in Jobs : PdfStoreFile(j)
    \/ \E j \in Jobs : PdfMarkSuccess(j)
    \/ \E j \in Jobs : PdfNotify(j)
    \/ \E j \in Jobs : PdfHandleError(j)
    \/ \E j \in Jobs : PdfAlert(j)
    \/ \E j \in Jobs : PdfReturn(j)
    \/ \E j \in Jobs : CustomConfigure(j)
    \/ \E j \in Jobs : CustomWidgets(j)
    \/ \E j \in Jobs : CustomAttachTask(j)
    \/ \E j \in Jobs : CustomToc(j)
    \/ \E j \in Jobs : CustomRenderTemplate(j)
    \/ \E j \in Jobs : CustomConvert(j)
    \/ \E j \in Jobs : CustomStoreFile(j)
    \/ \E j \in Jobs : CustomMarkSuccess(j)
    \/ \E j \in Jobs : CustomNotify(j)
    \/ \E j \in Jobs : CustomHandleError(j)
    \/ \E j \in Jobs : CustomAlert(j)
    \/ \E j \in Jobs : CustomFinally(j)
    \/ \E j \in Jobs : CustomReturn(j)

Spec == Init /\ [][Next]_vars

SpecConvInit == ConvInit /\ RendererInit /\ PdfInit /\ CreatorIdle
SpecConvNext == Convert /\ UNCHANGED <<rendererVars, pdfVars, creatorVars>>
SpecConv == SpecConvInit /\ [][SpecConvNext]_vars

(***************************************************************************)
(* SpecReport: a report creator is constructed, populated and rendered on  *)
(* each state of the domain records                                        *)
(***************************************************************************)
SpecReportInit == ConvIdle /\ RendererInit /\ PdfInit /\ CreatorInit

SpecReportNext ==
    \/ Construct
    \/ PopulateProductType
    \/ PopulateProduct
    \/ PopulateEngagement
    \/ PopulateTest
    \/ PopulateEndpoint
    \/ PopulateFindings
    \/ RenderJson
    \/ RenderPdf
    \/ RenderAscii
    \/ RenderUnsupported

SpecReport == SpecReportInit /\ [][SpecReportNext]_vars

(***************************************************************************)
(* SpecRender: JSON renderers are constructed and rendered directly        *)
(***************************************************************************)
SpecRenderNext ==
    \/ ConstructJsonRenderer
    \/ JsonRender

SpecRender == Init /\ [][SpecRenderNext]_vars




(***************************************************************************)
(* Claims about the creators (SpecReport), the JSON renderer (SpecRender)  *)
(* and the converter (SpecConv)                                            *)
(***************************************************************************)
\* the last render returned a JSON document
RenderedAsJson == output.ok /\ output.json.k = "object"

\* the ids of the findings in the JSON document the last render returned
RenderedFindingIds ==
    LET items == output.json.members["findings"].items
    IN  {items[i].members["id"].n : i \in DOMAIN items}

\* the product of the root of a Product- or Endpoint-scoped report
RootProduct ==
    LET root == CHOOSE x \in creator.root : TRUE
    IN  IF creator.cls = "Product" THEN root ELSE db.ep_product[root]

\* C3: a Product-scoped or Endpoint-scoped report, populated and rendered as
\* JSON for a user who is not in the product's authorized-user set, contains
\* zero findings.
C3_UnauthorizedSeesNoFindings ==
    ( /\ RenderedAsJson
      /\ creator.cls \in {"Product", "Endpoint"}
      /\ creator.user \notin db.authorized[RootProduct] )
    => RenderedFindingIds = {}

\* the findings reachable from the root under the traversal of the scope
ScopeFindings ==
    CASE creator.cls = "Product_Type" ->
            {f \in Findings : db.prod_type[FindingProduct(f)] \in creator.root}
      [] creator.cls = "Product" ->
            {f \in Findings : FindingProduct(f) \in creator.root}
      [] creator.cls = "Engagement" ->
            {f \in Findings : db.engagement[db.test[f]] \in creator.root}
      [] creator.cls = "Test" ->
            {f \in Findings : db.test[f] \in creator.root}
      [] creator.cls = "Endpoint" ->
            {f \in Findings :
                \E root \in creator.root, ep \in db.endpoints[f] :
                    /\ db.ep_product[ep] = db.ep_product[root]
                    /\ host_no_port(EndpointHost(ep)) =
                           host_no_port(EndpointHost(root))}
      [] OTHER ->
            {f \in creator.root :
                creator.user \in db.authorized[FindingProduct(f)]}

\* C4: for each scope type and every root, populate(root) followed by
\* render('application/json') yields a JSON object whose findings are exactly
\* the findings reachable from the root under the scope's traversal.
C4_FindingsExactlyReachable ==
    RenderedAsJson => RenderedFindingIds = ScopeFindings

\* C9: JsonReportRenderer.render returns the serialization of the merged
\* mapping (initial context, plus objects, overridden by the context update),
\* so the output object has an objects key and every key of the initial
\* context.
C9_JsonRenderSerializesMergedMapping ==
    (renderer.cls = "json" /\ output.called)
    => /\ output = JsonPerformRendering(
                       InitialContextOf(renderer, default_initial_context))
       /\ {"objects"} \cup DOMAIN InitialContextOf(renderer,
                                                   default_initial_context)
              \subseteq DOMAIN output.json.members

\* C11: creator.render(format) with a format outside the table of
\* application/json, application/pdf and text/plain fails with an error for
\* the caller; no renderer is run, no Report is created, no job is enqueued.
C11_UnknownFormatFails ==
    [][(creator'.renders > creator.renders
            /\ creator'.format \notin RendererFormats) =>
          /\ output'.called /\ ~output'.ok
          /\ UNCHANGED <<rendererVars, pdfVars>>]_vars

C11_Witness ==
    /\ creator.has_queryset
    /\ creator.renders > 0
    /\ creator.format \notin RendererFormats
    /\ output = Failed("KeyError")

\* C12: render on a creator that has not been populated fails with an error,
\* for every format; it returns no output, creates no Report and enqueues no
\* job.
C12_RenderBeforePopulateFails ==
    [][(creator'.renders > creator.renders /\ ~creator.has_queryset) =>
          /\ output'.called /\ ~output'.ok
          /\ UNCHANGED pdfVars]_vars

C12_Witness ==
    /\ ~creator.has_queryset
    /\ creator.format = "application/pdf"
    /\ output = Failed("AttributeError")
    /\ reports = <<>>

\* C14: two calls of the JSON renderer with an identical record-set and
\* context, on the same instance or on two instances, return identical
\* output; the first render does not change what the second returns.
C14_JsonRenderIdempotent ==
    \A a, b \in DOMAIN history :
        ( /\ history[a].queryset = history[b].queryset
          /\ history[a].passed = history[b].passed
          /\ history[a].initial_context = history[b].initial_context
          /\ history[a].context_update = history[b].context_update )
        => history[a].out = history[b].out

C14_Witness ==
    \E a, b \in DOMAIN history :
        /\ a < b
        /\ history[a].queryset = history[b].queryset
        /\ history[a].passed = history[b].passed
        /\ history[a].initial_context = history[b].initial_context
        /\ history[a].context_update = history[b].context_update
        /\ history[a].out.ok
        /\ history[a].out = history[b].out
        /\ \E c \in DOMAIN history :
              /\ a < c /\ c < b
              /\ history[c].context_update # history[a].context_update

\* C18: populate takes the four inclusion flags out of the request
\* parameters before any filtering: neither the root record-set filter nor
\* the finding filter receives an inclusion flag, and each flag stored in the
\* context equals the value passed, or false when it was not passed.
C18_FlagsRemovedBeforeFiltering ==
    creator.has_queryset =>
        /\ (DOMAIN creator.filter_criteria) \cap FlagNames = {}
        /\ (DOMAIN creator.filter_data) \cap FlagNames = {}
        /\ \A n \in FlagNames :
              creator.base_context[n] = MapGet(creator.kwargs, n, BoolV(FALSE))

\* the siblings of the scope endpoint: the endpoints of the same product
\* with the same host, ignoring the port
SiblingEndpoints ==
    {ep \in Endpoints :
        \E root \in creator.root :
            /\ db.ep_product[ep] = db.ep_product[root]
            /\ host_no_port(EndpointHost(ep)) =
                   host_no_port(EndpointHost(root))}

\* the ids of the records of a record-set in the context
ContextIds(name) ==
    LET items == creator.base_context[name].items
    IN  {items[i].f["id"].n : i \in DOMAIN items}

\* C19: in an Endpoint-scoped report the sibling endpoint set is exactly the
\* set of endpoints of the same product whose host, ignoring the port, equals
\* the host-without-port of the scope endpoint, and the findings are exactly
\* those attached to an endpoint of the set.
C19_EndpointSiblingsExact ==
    (creator.cls = "Endpoint" /\ creator.has_queryset) =>
        /\ ContextIds("endpoints") = SiblingEndpoints
        /\ ContextIds("findings") =
               {f \in Findings : db.endpoints[f] \cap SiblingEndpoints # {}}

\* C20: the number of month buckets ProductTypeReportCreator.populate
\* requests for the opened-per-month series is at least 1, and exactly 1
\* when the start date equals the current time (no finding, or the finding
\* that gives the start date is dated now).
C20_AtLeastOneMonth ==
    (creator.cls = "Product_Type" /\ creator.has_queryset) =>
        /\ creator.months >= 1
        /\ (\A f \in ContextIds("findings") : db.date[f] = db.now)
               => creator.months = 1

\* C21: convert_to_native_type applies the first matching rule of the order
\* None, string or number, mapping, other iterable, date-time, date, time:
\* None gives None; a string or number is returned unchanged, a string never
\* as the sequence of its characters; a mapping gives a mapping, never the
\* sequence of its keys; another iterable gives the sequence of its converted
\* elements in order; a date-time gives YYYY-MM-DDTHH:MM:SS, never the
\* date-only form; a date gives YYYY-MM-DD and a time HH:MM:SS.
C21_FirstMatchingRule ==
    cv_result # NotCalled =>
        /\ cv_obj = NoneV => cv_result = Ok(NoneV)
        /\ cv_obj.k \in {"str", "num", "bool"} => cv_result = Ok(cv_obj)
        /\ (cv_obj.k = "dict" /\ cv_result.ok) =>
              /\ cv_result.v.k = "dict"
              /\ Cardinality(DOMAIN cv_result.v.d) =
                     Cardinality(DOMAIN cv_obj.d)
        /\ (cv_obj.k = "list" /\ cv_result.ok) =>
              /\ cv_result.v.k = "list"
              /\ Len(cv_result.v.items) = Len(cv_obj.items)
              /\ \A i \in DOMAIN cv_obj.items :
                    Ok(cv_result.v.items[i]) =
                        convert_to_native_type(cv_obj.items[i], cv_ignore)
        /\ cv_obj = SampleDateTime =>
              cv_result = Ok(Str("2018-03-07T09:05:00"))
        /\ cv_obj = SampleDate => cv_result = Ok(Str("2018-03-07"))
        /\ cv_obj = SampleTime => cv_result = Ok(Str("09:05:00"))

\* a date-time value was converted
C21_Witness ==
    /\ cv_result # NotCalled
    /\ cv_obj = SampleDateTime
    /\ cv_result = Ok(Str("2018-03-07T09:05:00"))

\* C10: with ignore_errors requested the conversion never raises, whatever the
\* nesting of the unconvertible leaf; without it, any unconvertible leaf makes
\* the conversion fail.
C10_LenientNeverRaises ==
    cv_result # NotCalled =>
        /\ cv_ignore => cv_result.ok
        /\ (~cv_ignore /\ HasUnconvertibleLeaf(cv_obj)) => ~cv_result.ok

\* a user record is reached by the conversion of x
RECURSIVE HasUserRecord(_)
HasUserRecord(x) ==
    IF x.k = "model" THEN
        x.user \/ \E n \in DOMAIN x.f : HasUserRecord(x.f[n])
    ELSE IF x.k = "dict" THEN
        \E key \in DOMAIN x.d : HasUserRecord(key) \/ HasUserRecord(x.d[key])
    ELSE IF x.k = "list" THEN
        \E i \in DOMAIN x.items : HasUserRecord(x.items[i])
    ELSE FALSE

\* a native value holds a password entry or the password of a user record
RECURSIVE ContainsCredential(_)
ContainsCredential(v) ==
    IF v.k = "dict" THEN
        \E key \in DOMAIN v.d :
            \/ key = Str("password")
            \/ ContainsCredential(key)
            \/ ContainsCredential(v.d[key])
    ELSE IF v.k = "list" THEN
        \E i \in DOMAIN v.items : ContainsCredential(v.items[i])
    ELSE v = Str("secret")

\* C13: the result of convert_to_native_type contains no password field
\* taken from a user record, whether the user record is the value itself or
\* is reached through a mapping, a sequence or a relation field.
C13_NoCredentialInResult ==
    (cv_result # NotCalled /\ cv_result.ok) =>
        ~ContainsCredential(cv_result.v)

C13_Witness ==
    /\ cv_result # NotCalled
    /\ cv_result.ok
    /\ cv_obj.k = "model"
    /\ ~cv_obj.user
    /\ HasUserRecord(cv_obj)

(***************************************************************************)
(* Claims about the PDF renderer and the PDF jobs (Spec)                   *)
(***************************************************************************)
\* the execution of job message j has ended: it returned, or an exception
\* left it
Ended(j) == runs[j].pc \in {"returned", "raised"}

\* the Report row of job message j
RowOf(j) == reports[queue[j].rid]

\* the notifications the current execution of j emitted for the event
RunNotifications(j, event) ==
    {i \in DOMAIN notifications[j] :
        /\ notifications[j][i].run = deliveries[j]
        /\ notifications[j][i].event = event}

\* C1: across the executions of the PDF jobs, the persisted status of a
\* Report changes only from pending to success or from pending to error; a
\* status of success or error never changes again.
C1_StatusOnlyLeavesPending ==
    [][\A r \in DOMAIN reports :
          reports'[r].status # reports[r].status =>
              /\ reports[r].status = InitialStatus
              /\ reports'[r].status \in {SuccessStatus, ErrorStatus}]_vars

\* C2: in every persisted state of a Report, its file is populated if and
\* only if its status is success.
C2_FileIffSuccess ==
    \A r \in DOMAIN reports :
        reports[r].file <=> (reports[r].status = SuccessStatus)

\* C5: if the converter or the template rendering raised in a job execution,
\* then when the execution has ended the Report's status is error, its
\* done_datetime is unset and exactly one failure notification was emitted
\* by that execution.
C5_ConverterFailureMarksError ==
    \A j \in Jobs :
        (Ended(j) /\ runs[j].exc.at \in {"render", "convert"}) =>
            /\ RowOf(j).status = ErrorStatus
            /\ ~RowOf(j).done_datetime
            /\ Cardinality(RunNotifications(j, "other")) = 1

\* what C6 promises of an execution of j
SuccessOutcome(j) ==
    /\ RowOf(j).status = SuccessStatus
    /\ RowOf(j).done_datetime
    /\ Cardinality(RunNotifications(j, "report_created")) = 1
    /\ \A i \in RunNotifications(j, "report_created") :
          /\ notifications[j][i].url = ReportUrl(queue[j].rid)
          /\ notifications[j][i].owner = RowOf(j).requester
    /\ RunNotifications(j, "other") = {}

C7_JobAlwaysReturns == \A j \in Jobs : runs[j].pc # "raised"

\* C8: PdfReportRenderer.render creates exactly one Report, pending, enqueues
\* exactly one async_pdf_report message carrying that Report and the full
\* rendering context (the renderer's merged context), and returns the handle
\* while the job has not run; no Report has more than one message.
C8_RenderEnqueuesFullContext ==
    [][(Len(queue') > Len(queue) /\ queue'[Len(queue')].task = "pdf") =>
          LET j == Len(queue')
              rid == Len(reports')
          IN  /\ Len(queue') = Len(queue) + 1
              /\ Len(reports') = Len(reports) + 1
              /\ reports'[rid].status = InitialStatus
              /\ queue'[j].rid = rid
              /\ queue'[j].report = reports'[rid]
              /\ queue'[j].context =
                    InitialContextOf(renderer', default_initial_context')
              /\ runs'[j].pc = "queued"
              /\ handles' = Append(handles, j)
              /\ \A r \in DOMAIN reports' :
                    Cardinality({m \in DOMAIN queue' : queue'[m].rid = r}) <= 1
      ]_vars

\* C15: in async_custom_pdf_report, whenever the temporary table-of-contents
\* stylesheet file has been created, it is closed before the job ends, on
\* every exit path.
C15_TempFileClosed ==
    \A j \in Jobs :
        (Ended(j) /\ queue[j].task = "custom") => runs[j].temp # "open"

C15_Witness ==
    \E j \in Jobs :
        /\ queue[j].task = "custom"
        /\ runs[j].pc = "raised"
        /\ runs[j].exc.at = "convert"
        /\ runs[j].temp = "closed"

OwnRowOnly ==
    \A r \in DOMAIN reports :
        reports'[r] # reports[r] =>
            \E j \in Jobs :
                /\ queue[j].rid = r
                /\ runs'[j] # runs[j]
                /\ reports'[r] = runs'[j].report
                /\ \A k \in Jobs \ {j} : runs'[k] = runs[k]

\* C17: when several PDF jobs for distinct Reports run concurrently, in any
\* interleaving of their steps, each job writes only its own Report record,
\* and each Report's final status, file and done_datetime are those its own
\* job computed, as if it had run alone.
C17_JobsDoNotInterfere ==
    /\ [][OwnRowOnly]_vars
    /\ [](\A j \in Jobs :
            runs[j].pc = "returned" =>
                /\ RowOf(j).status = runs[j].report.status
                /\ RowOf(j).file = runs[j].report.file
                /\ RowOf(j).done_datetime = runs[j].report.done_datetime)

C17_Witness ==
    \E j, k \in Jobs :
        /\ queue[j].rid # queue[k].rid
        /\ deliveries[j] = 1 /\ deliveries[k] = 1
        /\ runs[j].pc = "returned"
        /\ RowOf(j).status = SuccessStatus
        /\ runs[k].pc = "returned"
        /\ RowOf(k).status = ErrorStatus
        /\ ~RowOf(k).done_datetime

\* a step that emits a notification of job j finds the matching final status
\* persisted: success for the report_created notification, error for the
\* failure alert
NotifiesAfterPersist ==
    \A j \in Jobs :
        notifications'[j] # notifications[j] =>
            LET n == notifications'[j][Len(notifications'[j])]
            IN  /\ Len(notifications'[j]) = Len(notifications[j]) + 1
                /\ RowOf(j).status =
                       IF n.event = "report_created" THEN SuccessStatus
                       ELSE ErrorStatus
                /\ reports' = reports

\* the step that invokes the converter finds the job's identifier persisted
\* on the Report
ConvertsAfterTaskId ==
    \A j \in Jobs :
        (runs[j].pc \in {"convert", "c_convert"} /\ runs'[j] # runs[j]) =>
            /\ runs[j].report.task_id = TaskId(j)
            /\ RowOf(j).task_id = TaskId(j)

\* C22: in every PDF job run the Report's final status (success or error) is
\* persisted before the corresponding notification is emitted, and the job's
\* identifier is attached to the Report and persisted before the converter
\* is invoked; no notification is emitted for a Report whose persisted
\* status is still pending.
C22_PersistBeforeNotify ==
    /\ [][NotifiesAfterPersist]_vars
    /\ [][ConvertsAfterTaskId]_vars

\* one job has just emitted its success notification, another its failure
\* alert after a converter failure
C22_Witness ==
    \E j, k \in Jobs :
        /\ runs[j].pc \in {"return", "c_finally"}
        /\ notifications[j] # <<>>
        /\ notifications[j][Len(notifications[j])].event = "report_created"
        /\ RowOf(j).status = SuccessStatus
        /\ RowOf(j).task_id = TaskId(j)
        /\ runs[k].pc \in {"return", "c_finally"}
        /\ runs[k].exc.at = "convert"
        /\ notifications[k] # <<>>
        /\ notifications[k][Len(notifications[k])].event = "other"
        /\ RowOf(k).status = ErrorStatus

\* the subtitle the scope root calls for: the name of a product type,
\* product or engagement, the string form of a test, the host without port
\* of an endpoint
ScopeSubtitle(cls, root) ==
    CASE cls = "Test" -> TestStr(root)
      [] cls = "Endpoint" -> JoinChars(host_no_port(EndpointHost(root)))
      [] OTHER -> Obj(cls, root).f["name"].s

\* C23: for a ProductType-, Product- or Engagement-scoped report the
\* subtitle, and the report name composed from title and subtitle, is the
\* name of the scope root passed to populate, whatever other records of the
\* same type exist; for a Test scope it is the test's string form, for an
\* Endpoint scope the endpoint's host without port.
C23_SubtitleNamesScopeRoot ==
    (creator.has_queryset /\ creator.cls # "Finding") =>
        \A root \in creator.root :
            /\ creator.base_context["subtitle"] =
                   Str(ScopeSubtitle(creator.cls, root))
            /\ creator.base_context["report_name"] =
                   Str(creator.cls \o " Report: "
                          \o ScopeSubtitle(creator.cls, root))

\* the first render of a renderer constructed without an initial context
\* leaves it a context of the objects entry and its own context update
FirstRenderIsolated ==
    (renderer.cls = "json" /\ renderer.shared /\ ~renderer.has_context
        /\ renderer'.has_context) =>
        LET context == InitialContextOf(renderer', default_initial_context')
            context_update == history'[Len(history')].context_update
        IN  /\ DOMAIN context = {"objects"} \cup DOMAIN context_update
            /\ \A n \in DOMAIN context_update :
                  context[n] = context_update[n]
            /\ "objects" \notin DOMAIN context_update =>
                  context["objects"] = QuerySetValues(renderer.queryset)

\* C24: renderer instances are isolated from each other: after any sequence
\* of renders by other renderer instances, a renderer constructed without an
\* initial context has, after its own render, a context holding only the
\* objects field and the keys of its own context update; no key or value of
\* an earlier report is present in it.
C24_RenderersIsolated == [][FirstRenderIsolated]_vars

====
